---- MODULE Spec2Model ----
(***************************************************************************)
(* Conversation store, history window resolver, document tools, agent      *)
(* memory, request routes and orchestrator turn of the Bedrock RAG agent.  *)
(*                                                                         *)
(* A stored message is a record with fields id, conversation_id, role,     *)
(* type, content and timestamp.  A field the stored document does not      *)
(* carry holds Absent (timestamp: 0; real timestamps are >= 1).  The       *)
(* collection is the sequence of documents in insertion order.             *)
(***************************************************************************)
EXTENDS Integers, Sequences, FiniteSets, TLC

VARIABLES
    store,            \* the MongoDB collection: documents in insertion order
    now,              \* the clock read by datetime.utcnow()
    nextId,           \* the next _id the collection hands out
    pc,               \* position of the orchestrator in answer_question
                      \* (SpecConcurrent: of each instance; SpecMemory: whether
                      \* the memory was added to since it was last cleared)
    turn,             \* the query of the turn in progress and the _id it was stored under
                      \* (SpecConcurrent: what each instance has written)
    fallback_memory,  \* MongoDBMemoryAdapter.fallback_memory of the orchestrator
                      \* (SpecConcurrent: of each instance)
    ret               \* the last operation called, its arguments and what it returned

vars == <<store, now, nextId, pc, turn, fallback_memory, ret>>

----------------------------------------------------------------------------
(* Bounds of the model *)

MaxMsgs == 3          \* documents inserted by direct calls of the message store
MaxConv == 4          \* documents inserted when the resolver is exercised
MaxLegacy == 2        \* documents of a collection written under the legacy schema
MaxTurns == 2         \* answer_question calls of the orchestrator
MaxLimit == 2         \* largest limit argument a caller passes
MaxSkip == 1          \* largest skip argument a caller passes
MaxSources == 3       \* documents the provider returns, sources a caller passes to the filter

(* Configuration: MAX_HISTORY_LENGTH, read from the environment *)
MAX_HISTORY_LENGTH == 2

Absent == "<absent>"
CIDs == {"c1", "c2"}
Roles == {"user", "assistant"}     \* the roles the orchestrator writes
Contents == {"x"}
Limits == 0..MaxLimit         \* 0 stands for None: `limit or default` treats both alike
Skips == 0..MaxSkip

Min(a, b) == IF a < b THEN a ELSE b

\* messages.reverse() left out
Reverse_Missing(s) == s

Take(s, k) == SubSeq(s, 1, Min(k, Len(s)))
Drop(s, k) == SubSeq(s, k + 1, Len(s))
Reverse(s) == [i \in 1..Len(s) |-> s[Len(s) + 1 - i]]

Has(field) == field # Absent

----------------------------------------------------------------------------
(* The collection's query primitives *)

\* the filter as it would be if the conversation_id were not compared
Matching_AnyConversation(st, cid) == 1..Len(st)

\* indexes of the documents matching {"conversation_id": cid}
Matching(st, cid) == {i \in 1..Len(st) : st[i].conversation_id = cid}

\* the documents of S that may come first under sort("timestamp", dir)
First(st, S, descending) ==
    {i \in S : \A j \in S :
        IF descending THEN st[i].timestamp >= st[j].timestamp
                      ELSE st[i].timestamp <= st[j].timestamp}

\* sort("timestamp", dir): every order of the documents S the sort may
\* produce; documents with equal timestamps come in an order the store chooses
RECURSIVE Sorted(_, _, _)
Sorted(st, S, descending) ==
    IF S = {} THEN {<<>>}
    ELSE UNION {{<<i>> \o p : p \in Sorted(st, S \ {i}, descending)} :
                    i \in First(st, S, descending)}

SortOrders(st, cid, descending) == Sorted(st, Matching(st, cid), descending)

\* cursor.skip(skip).limit(limit) over a sorted order; limit 0 is no limit
Window(docs, skip, limit) ==
    LET rest == Drop(docs, skip)
    IN  IF limit = 0 THEN rest ELSE Take(rest, limit)

\* collection.find({"conversation_id": cid}).sort(...).skip(...).limit(...)
Find(st, cid, descending, skip, limit) ==
    {Window([i \in 1..Len(p) |-> st[p[i]]], skip, limit) :
        p \in SortOrders(st, cid, descending)}

----------------------------------------------------------------------------
(* MongoDBClient (history tool server): the History Window Resolver *)

\* limit = limit or self.max_history_length
EffectiveLimit(limit) == IF limit = 0 THEN MAX_HISTORY_LENGTH ELSE limit

\* the scan as it would be if only the newest message were examined
ScanForUser_NewestOnly(messages, i) ==
    IF messages[1].role = "user" THEN Drop(messages, 2) ELSE messages

\* the for loop over enumerate(messages), i counted from 0: the first message
\* with role "user" among the first two drops the two newest messages
RECURSIVE ScanForUser(_, _)
ScanForUser(messages, i) ==
    IF i >= Len(messages) THEN messages
    ELSE IF messages[i + 1].role = "user" THEN Drop(messages, 2)
    ELSE IF i >= 1 THEN messages
    ELSE ScanForUser(messages, i + 1)

\* the exclusion as it would be if the exclude_current flag were not consulted
ExcludeCurrentPair_Always(messages, exclude_current) ==
    IF Len(messages) >= 2 THEN ScanForUser(messages, 0) ELSE messages

\* if exclude_current and len(messages) >= 2: ...
ExcludeCurrentPair(messages, exclude_current) ==
    IF exclude_current /\ Len(messages) >= 2
      THEN ScanForUser(messages, 0)
      ELSE messages

\* the number of documents the query asks for
FetchSize(limit, exclude_current) == limit + (IF exclude_current THEN 2 ELSE 0)

\* the call as it would be if a failing storage still delivered the documents
MongoDBClient_get_conversation_history_Unguarded(st, conversation_id, limit, exclude_current, storage) ==
    {Reverse(ExcludeCurrentPair(messages, exclude_current)) :
        messages \in Find(st, conversation_id, TRUE, 0,
                          FetchSize(EffectiveLimit(limit), exclude_current))}

\* MongoDBClient.get_conversation_history: every list the call may return.
\* storage "ok": the query runs; anything else: not connected or the query
\* raises, and the call returns [].
MongoDBClient_get_conversation_history(st, conversation_id, limit, exclude_current, storage) ==
    IF storage # "ok" THEN {<<>>}
    ELSE {Reverse(ExcludeCurrentPair(messages, exclude_current)) :
            messages \in Find(st, conversation_id, TRUE, 0,
                              FetchSize(EffectiveLimit(limit), exclude_current))}

----------------------------------------------------------------------------
(* ConversationHandler and the get_conversation_history tool *)

\* datetime.isoformat(): the textual form of a timestamp
isoformat(t) == "T" \o ToString(t)

\* one entry of formatted_messages
FormatMessage(msg) ==
    [role      |-> IF Has(msg.role) THEN msg.role ELSE "unknown",
     content   |-> IF Has(msg.content) THEN msg.content ELSE "",
     timestamp |-> IF msg.timestamp > 0 THEN isoformat(msg.timestamp) ELSE ""]

\* ConversationHandler.get_conversation_history on the list the client returned,
\* passed on unchanged by the tool as ConversationHistoryResponse
ConversationHandler_get_conversation_history(conversation_id, messages) ==
    [conversation_id |-> conversation_id,
     messages        |-> [i \in 1..Len(messages) |-> FormatMessage(messages[i])],
     message_count   |-> Len(messages),
     error           |-> Absent]

----------------------------------------------------------------------------
(* ConversationRepository (agent side): the Message Store *)

\* the document as it would be if add_message left the timestamp out
NewMessage_NoTimestamp(id, conversation_id, role, content, timestamp) ==
    [id |-> id, conversation_id |-> conversation_id, role |-> role,
     type |-> Absent, content |-> content, timestamp |-> 0]

\* the document add_message builds; the collection adds _id
NewMessage(id, conversation_id, role, content, timestamp) ==
    [id |-> id, conversation_id |-> conversation_id, role |-> role,
     type |-> Absent, content |-> content, timestamp |-> timestamp]

\* insert_one
InsertOne(st, doc) == Append(st, doc)

\* the deletion as it would be with delete_one: only the oldest match goes
DeleteMany_FirstOnly(st, conversation_id) ==
    LET M == Matching(st, conversation_id)
    IN  IF M = {} THEN st
        ELSE LET f == CHOOSE i \in M : \A j \in M : i <= j
             IN  SubSeq(st, 1, f - 1) \o SubSeq(st, f + 1, Len(st))

\* the deletion as it would be with an empty filter: every document goes
DeleteMany_NoFilter(st, conversation_id) == <<>>

\* delete_many({"conversation_id": conversation_id})
DeleteMany(st, conversation_id) ==
    SelectSeq(st, LAMBDA doc : doc.conversation_id # conversation_id)

\* the mapping as it would be if 'ai' were passed through like an unknown type
MapType_AiUnmapped(msg_type) ==
    IF msg_type = "human" THEN "user"
    ELSE IF msg_type = "system" THEN "system"
    ELSE msg_type

\* the legacy 'type' to 'role' mapping
MapType(msg_type) ==
    IF msg_type = "human" THEN "user"
    ELSE IF msg_type = "ai" THEN "assistant"
    ELSE IF msg_type = "system" THEN "system"
    ELSE msg_type

\* role of a fetched message after the legacy mapping and the default
ValidatedRole(msg) ==
    LET mapped == IF Has(msg.type) /\ ~Has(msg.role) THEN MapType(msg.type) ELSE msg.role
    IN  IF ~Has(mapped) THEN "user" ELSE mapped

\* the content as it would be without the default for a missing field
ValidatedContent_Unrepaired(msg) == msg.content

\* content of a fetched message after the default
ValidatedContent(msg) == IF ~Has(msg.content) THEN "" ELSE msg.content

\* one element of validated_messages; the projection {"_id": 0} drops the id
Validate(msg) ==
    [conversation_id |-> msg.conversation_id,
     role            |-> ValidatedRole(msg),
     type            |-> msg.type,
     content         |-> ValidatedContent(msg),
     timestamp       |-> msg.timestamp]

\* the cursor as it would be with the sort direction reversed
FetchCursor_Descending(st, conversation_id, limit, skip) ==
    Find(st, conversation_id, TRUE, skip, limit)

\* the cursor of fetch: sort("timestamp", 1), then skip and limit
FetchCursor(st, conversation_id, limit, skip) ==
    Find(st, conversation_id, FALSE, skip, limit)

\* ConversationRepository.get_conversation_history: every list the call may
\* return. limit 0 stands for None (no limit).
ConversationRepository_get_conversation_history(st, conversation_id, limit, skip, storage) ==
    IF storage # "ok" THEN {<<>>}
    ELSE {[i \in 1..Len(messages) |-> Validate(messages[i])] :
            messages \in FetchCursor(st, conversation_id, limit, skip)}

\* the conversation_ids present in the collection
ConversationIds(st) == {st[i].conversation_id : i \in 1..Len(st)}

\* the $first as it would be after an ascending $sort: the oldest message
LatestCandidates_Oldest(st, conversation_id) == First(st, Matching(st, conversation_id), FALSE)

\* {"$sort": {"timestamp": -1}}, then "$first": "$$ROOT" of a group: the
\* documents that may become the group's latest_message
LatestCandidates(st, conversation_id) == First(st, Matching(st, conversation_id), TRUE)

\* {"$sort": {"latest_message.timestamp": -1}}: every order of the groups C the
\* sort may produce; latest[c] is the index of the latest_message of group c
RECURSIVE GroupOrders(_, _, _)
GroupOrders(st, latest, C) ==
    IF C = {} THEN {<<>>}
    ELSE UNION {{<<c>> \o p : p \in GroupOrders(st, latest, C \ {c})} :
                    c \in {c \in C : \A d \in C :
                              st[latest[c]].timestamp >= st[latest[d]].timestamp}}

\* the $group stage with "message_count": {"$sum": 1}, then the $project stage
GroupEntry(st, latest, c) ==
    [conversation_id |-> c, latest_message |-> st[latest[c]],
     message_count |-> Cardinality(Matching(st, c))]

\* ConversationRepository.get_recent_conversations: every list the call may
\* return. {"$limit": 0} is rejected by the server (the limit must be
\* positive): an OperationFailure, which the call turns into [].
ConversationRepository_get_recent_conversations(st, limit, storage) ==
    IF storage # "ok" \/ limit = 0 THEN {<<>>}
    ELSE LET C == ConversationIds(st)
         IN  UNION {{Take([i \in 1..Len(p) |-> GroupEntry(st, latest, p[i])], limit) :
                        p \in GroupOrders(st, latest, C)} :
                    latest \in {f \in [C -> 1..Len(st)] :
                                  \A c \in C : f[c] \in LatestCandidates(st, c)}}

\* every sequence of k distinct elements of S
RECURSIVE Arrangements(_, _)
Arrangements(S, k) ==
    IF k = 0 \/ S = {} THEN {<<>>}
    ELSE UNION {{<<i>> \o p : p \in Arrangements(S \ {i}, k - 1)} : i \in S}

\* the projection {"_id": 0} on a document returned as it is stored
WithoutId(doc) ==
    [conversation_id |-> doc.conversation_id, role |-> doc.role, type |-> doc.type,
     content |-> doc.content, timestamp |-> doc.timestamp]

\* the documents matching {"$text": {"$search": search_text}}
TextMatching(st, search_text) == {i \in 1..Len(st) : st[i].content = search_text}

\* ConversationRepository.search_conversations: every list the call may
\* return. The order is the server's textScore, which the model leaves open;
\* limit(0) is no limit. storage "error" includes the missing text index.
ConversationRepository_search_conversations(st, search_text, limit, storage) ==
    IF storage # "ok" THEN {<<>>}
    ELSE LET M == TextMatching(st, search_text)
             k == IF limit = 0 THEN Cardinality(M) ELSE Min(limit, Cardinality(M))
         IN  {[i \in 1..Len(p) |-> WithoutId(st[p[i]])] : p \in Arrangements(M, k)}

----------------------------------------------------------------------------
(* Operations *)

\* how the storage answers a read: "ok", or "error" (the collection is not
\* available, or the driver raises a PyMongoError)
StorageOutcomes == {"ok", "error"}
\* how the storage answers a write: as above, or "raise" (insert_one raises an
\* exception that is not a PyMongoError, e.g. a value BSON cannot encode)
WriteOutcomes == StorageOutcomes \cup {"raise"}
\* time that may pass between a call and its datetime.utcnow(): none, or one
\* tick; the clock is kept within one tick per document id handed out
Delays == {d \in 0..1 : now + d <= nextId}

NoCall == [op |-> "none"]
NoTurn == [query |-> Absent, stored |-> 0, store_len |-> 0, fallback_len |-> 0]

\* ConversationRepository.add_message(conversation_id, role, content)
add_message(conversation_id, role, content) ==
    /\ ret = NoCall
    /\ \E outcome \in WriteOutcomes, d \in Delays :
         /\ now' = now + d
         /\ IF outcome = "ok"
              THEN /\ store' = InsertOne(store,
                                  NewMessage(nextId, conversation_id, role, content, now + d))
                   /\ nextId' = nextId + 1
              ELSE UNCHANGED <<store, nextId>>
         /\ ret' = [op |-> "add_message", conversation_id |-> conversation_id,
                    role |-> role, content |-> content, called_at |-> now,
                    before |-> Cardinality(Matching(store, conversation_id)),
                    storage |-> outcome,
                    raised |-> (outcome = "raise"),
                    result |-> (outcome = "ok")]
    /\ UNCHANGED <<pc, turn, fallback_memory>>

\* ConversationRepository.get_conversation_history(conversation_id, limit, skip)
fetch(conversation_id, limit, skip) ==
    /\ ret = NoCall
    /\ \E storage \in StorageOutcomes :
         \E messages \in ConversationRepository_get_conversation_history(
                            store, conversation_id, limit, skip, storage) :
            ret' = [op |-> "fetch", conversation_id |-> conversation_id,
                    limit |-> limit, skip |-> skip, storage |-> storage,
                    result |-> messages]
    /\ UNCHANGED <<store, now, nextId, pc, turn, fallback_memory>>

\* the get_conversation_history tool: ConversationHandler over MongoDBClient
get_conversation_history_tool(conversation_id, limit, exclude_current) ==
    /\ ret = NoCall
    /\ \E storage \in StorageOutcomes :
         \E messages \in MongoDBClient_get_conversation_history(
                            store, conversation_id, limit, exclude_current, storage) :
            ret' = [op |-> "tool", conversation_id |-> conversation_id,
                    limit |-> limit, exclude_current |-> exclude_current,
                    storage |-> storage, resolved |-> messages,
                    response |-> ConversationHandler_get_conversation_history(
                                     conversation_id, messages)]
    /\ UNCHANGED <<store, now, nextId, pc, turn, fallback_memory>>

\* ConversationRepository.clear_conversation(conversation_id)
clear_conversation(conversation_id) ==
    /\ ret = NoCall
    /\ \E outcome \in StorageOutcomes :
         /\ store' = IF outcome = "ok" THEN DeleteMany(store, conversation_id) ELSE store
         /\ ret' = [op |-> "clear_conversation", conversation_id |-> conversation_id,
                    storage |-> outcome, before |-> store, result |-> (outcome = "ok")]
    /\ UNCHANGED <<now, nextId, pc, turn, fallback_memory>>

\* ConversationRepository.get_recent_conversations(limit)
get_recent_conversations(limit) ==
    /\ ret = NoCall
    /\ \E storage \in StorageOutcomes :
         \E conversations \in ConversationRepository_get_recent_conversations(
                                 store, limit, storage) :
            ret' = [op |-> "recent", limit |-> limit, storage |-> storage,
                    result |-> conversations]
    /\ UNCHANGED <<store, now, nextId, pc, turn, fallback_memory>>

\* ConversationRepository.search_conversations(search_text, limit)
search_conversations(search_text, limit) ==
    /\ ret = NoCall
    /\ \E storage \in StorageOutcomes :
         \E messages \in ConversationRepository_search_conversations(
                            store, search_text, limit, storage) :
            ret' = [op |-> "search", search_text |-> search_text,
                    limit |-> limit, storage |-> storage, result |-> messages]
    /\ UNCHANGED <<store, now, nextId, pc, turn, fallback_memory>>

\* the caller takes the returned value; the next call can start
Return ==
    /\ ret # NoCall
    /\ ret' = NoCall
    /\ UNCHANGED <<store, now, nextId, pc, turn, fallback_memory>>

----------------------------------------------------------------------------
(* The orchestrator: BedrockRAGAgent.answer_question over ShortTermMemory *)
(* with the MongoDB adapter                                               *)

Conv == "c1"               \* the orchestrator's conversation_id
Queries == {"q"}
Answers == {"a"}
NoAnswerText == "Error: Could not generate an answer for this query."
ErrorText == "An error occurred while generating the answer: e"

\* messages of the list agent.ainvoke returns: the prompt, a model-authored
\* message, the result of a tool
HumanMessage == [type |-> "human", content |-> "p"]
AIMessage(content) == [type |-> "ai", content |-> content]
ToolMessage == [type |-> "tool", content |-> "h"]

\* result["messages"]: the prompt alone, the prompt and an answer, or the
\* prompt, the model's tool call, the tool's result and the answer
ModelResults ==
    {<<HumanMessage>>}
    \cup {<<HumanMessage, AIMessage(a)>> : a \in Answers}
    \cup {<<HumanMessage, AIMessage(""), ToolMessage, AIMessage(a)>> : a \in Answers}

\* what agent.ainvoke may do: return a result, or raise
ModelOutcomes ==
    [kind : {"result"}, messages : ModelResults] \cup {[kind |-> "raised", messages |-> <<>>]}

\* agent.ainvoke was not reached
NoModel == [kind |-> "none", messages |-> <<>>]

\* ai_messages = [msg for msg in result["messages"] if isinstance(msg, AIMessage)]
ai_messages(messages) == SelectSeq(messages, LAMBDA msg : msg.type = "ai")

\* how the model call ended: with an answer, without a model-authored
\* message, with an exception; Absent when it was not reached
ModelKind(model) ==
    IF model.kind = "none" THEN Absent
    ELSE IF model.kind = "raised" THEN "raised"
    ELSE IF ai_messages(model.messages) = <<>> THEN "no_ai_message"
    ELSE "answer"

\* the entry MongoDBMemoryAdapter.add_message appends to fallback_memory
FallbackMessage(role, content, timestamp) ==
    [conversation_id |-> Conv, role |-> role, content |-> content, timestamp |-> timestamp]

\* answer_question calls made so far that recorded their query
TurnsStarted ==
    Cardinality({i \in 1..Len(store) : store[i].role = "user"})
    + Cardinality({i \in 1..Len(fallback_memory) : fallback_memory[i].role = "user"})

\* messages the orchestrator's memory holds, in the collection or the fallback list
Recordings == Len(store) + Len(fallback_memory)

\* the adapter as it would be without the fallback list: a message the
\* repository could not store is dropped
memory_add_message_NoFallback(role, content, outcome, d) ==
    /\ now' = now + d
    /\ IF outcome = "ok"
         THEN /\ store' = InsertOne(store, NewMessage(nextId, Conv, role, content, now + d))
              /\ nextId' = nextId + 1
              /\ UNCHANGED fallback_memory
         ELSE UNCHANGED <<store, nextId, fallback_memory>>

\* ShortTermMemory.add_message -> MongoDBMemoryAdapter.add_message: the
\* repository first, the fallback list when it reports failure; when the
\* repository raises, nothing is recorded and the exception reaches the caller
memory_add_message(role, content, outcome, d) ==
    /\ now' = now + d
    /\ IF outcome = "ok"
         THEN /\ store' = InsertOne(store, NewMessage(nextId, Conv, role, content, now + d))
              /\ nextId' = nextId + 1
              /\ UNCHANGED fallback_memory
         ELSE IF outcome = "error"
         THEN /\ fallback_memory' = Append(fallback_memory,
                                           FallbackMessage(role, content, now + d))
              /\ UNCHANGED <<store, nextId>>
         ELSE UNCHANGED <<store, nextId, fallback_memory>>

\* result["messages"] of answer_question: the two messages built with
\* "error": True, else the messages agent.ainvoke returned
Exchange(error, answer, model) ==
    IF error THEN <<HumanMessage, AIMessage(answer)>> ELSE model.messages

QueryRouteError == "Error processing query: e"

\* POST /query around answer_question: the body picks the last message of
\* type 'ai' of result["messages"] as the answer and does not read
\* result["error"]; an exception, also the one raised for no 'ai' message,
\* becomes an HTTPException with status 500
QueryResponse(raised, messages) ==
    IF raised \/ ai_messages(messages) = <<>>
      THEN [status_code |-> 500, detail |-> QueryRouteError]
      ELSE [status_code |-> 200,
            answer |-> ai_messages(messages)[Len(ai_messages(messages))].content,
            conversation_id |-> Conv, status |-> "success"]

\* what answer_question hands to its caller, or that it raised. model and
\* result: how agent.ainvoke ended and the messages it returned; query,
\* store_len and fallback_len: the query and the sizes of the memory when the
\* call started; response: what the submit-query route makes of the outcome
AnswerRet(raised, error, answer, model, t) ==
    [op |-> "answer_question", raised |-> raised, error |-> error, answer |-> answer,
     model |-> ModelKind(model), result |-> model.messages, query |-> t.query,
     store_len |-> t.store_len, fallback_len |-> t.fallback_len,
     response |-> QueryResponse(raised, Exchange(error, answer, model))]

\* the except block of answer_question: the error message is recorded and
\* returned with "error": True; a write that raises here leaves the call
\* raising to its caller
ExceptBlock(model, t, outcome, d) ==
    /\ memory_add_message("assistant", ErrorText, outcome, d)
    /\ ret' = IF outcome = "raise"
                THEN AnswerRet(TRUE, FALSE, Absent, model, t)
                ELSE AnswerRet(FALSE, TRUE, ErrorText, model, t)

\* answer_question up to the await of agent.ainvoke: the lazy setup, then the
\* user's query is recorded. A setup that raises ends the call; a write of
\* the query that raises is handled by the except block.
StartTurn ==
    /\ pc \in {"new", "idle"}
    /\ ret = NoCall
    /\ TurnsStarted < MaxTurns
    /\ Recordings + 2 <= 2 * MaxTurns
    /\ \E q \in Queries :
         LET t == [query |-> q, stored |-> 0, store_len |-> Len(store),
                   fallback_len |-> Len(fallback_memory)]
         IN  \/ /\ pc = "new"
                /\ ret' = AnswerRet(TRUE, FALSE, Absent, NoModel, t)
                /\ UNCHANGED <<store, now, nextId, pc, turn, fallback_memory>>
             \/ \E outcome \in StorageOutcomes, d \in Delays :
                  /\ memory_add_message("user", q, outcome, d)
                  /\ turn' = [t EXCEPT !.stored = IF outcome = "ok" THEN nextId ELSE 0]
                  /\ pc' = "invoked"
                  /\ UNCHANGED ret
             \/ \E outcome \in WriteOutcomes, d \in Delays :
                  /\ ExceptBlock(NoModel, t, outcome, d)
                  /\ pc' = "idle"
                  /\ UNCHANGED turn

\* the content answer_question records as the assistant message:
\* ai_messages[-1].content, the fixed message when there is none, the error
\* message when the model call raised
Recorded(model) ==
    IF model.kind = "raised" THEN ErrorText
    ELSE IF ai_messages(model.messages) = <<>> THEN NoAnswerText
    ELSE ai_messages(model.messages)[Len(ai_messages(model.messages))].content

\* answer_question from the return of agent.ainvoke on: the assistant message
\* is recorded and the exchange returned. first: the outcome of the write in
\* the try block, which is not reached when the model call raised; when the
\* model call or that write raises, the except block runs.
FinishTurn ==
    /\ pc = "invoked"
    /\ ret = NoCall
    /\ \E model \in ModelOutcomes, first \in WriteOutcomes, outcome \in WriteOutcomes,
          d \in Delays :
         IF model.kind = "raised" \/ first = "raise"
           THEN ExceptBlock(model, turn, outcome, d)
           ELSE /\ memory_add_message("assistant", Recorded(model), first, d)
                /\ ret' = AnswerRet(FALSE, ai_messages(model.messages) = <<>>,
                                    Recorded(model), model, turn)
    /\ pc' = "idle"
    /\ turn' = NoTurn

\* the model, while agent.ainvoke runs, calls the history tool on the
\* orchestrator's conversation as the prompt instructs ("exclude_current": true)
HistoryToolCall ==
    /\ pc = "invoked"
    /\ \E l \in Limits : get_conversation_history_tool(Conv, l, TRUE)

Init ==
    /\ store = <<>>
    /\ now = 1
    /\ nextId = 1
    /\ pc = "new"
    /\ turn = NoTurn
    /\ fallback_memory = <<>>
    /\ ret = NoCall

Next == StartTurn \/ FinishTurn \/ HistoryToolCall \/ Return

Spec == Init /\ [][Next]_vars

----------------------------------------------------------------------------
(* Two orchestrator instances answering on one conversation at once *)

\* the two BedrockRAGAgent instances; each has its own memory adapter, and
\* in this specification pc, turn and fallback_memory hold one value per
\* instance
Instances == {1, 2}

\* the query instance o is asked
QueryOf(o) == IF o = 1 THEN "q1" ELSE "q2"

\* user, assistant: the ids of the documents the instance's two writes
\* stored (0: not stored); reply: the content of its assistant message
NoWrites == [user |-> 0, assistant |-> 0, reply |-> Absent]

\* MongoDBMemoryAdapter.add_message of instance o
instance_add_message(o, role, content, outcome, d) ==
    /\ now' = now + d
    /\ IF outcome = "ok"
         THEN /\ store' = InsertOne(store, NewMessage(nextId, Conv, role, content, now + d))
              /\ nextId' = nextId + 1
              /\ UNCHANGED fallback_memory
         ELSE IF outcome = "error"
         THEN /\ fallback_memory' =
                    [fallback_memory EXCEPT
                        ![o] = Append(@, FallbackMessage(role, content, now + d))]
              /\ UNCHANGED <<store, nextId>>
         ELSE UNCHANGED <<store, nextId, fallback_memory>>

\* the except block of answer_question in instance o
InstanceExceptBlock(o, outcome, d) ==
    /\ instance_add_message(o, "assistant", ErrorText, outcome, d)
    /\ turn' = [turn EXCEPT ![o].assistant = IF outcome = "ok" THEN nextId ELSE 0,
                            ![o].reply = ErrorText]
    /\ pc' = [pc EXCEPT ![o] = "done"]

\* answer_question of instance o up to the await of agent.ainvoke
InstanceStart(o) ==
    /\ pc[o] = "new"
    /\ \/ /\ pc' = [pc EXCEPT ![o] = "done"]
          /\ UNCHANGED <<store, now, nextId, turn, fallback_memory>>
       \/ \E outcome \in StorageOutcomes, d \in Delays :
            /\ instance_add_message(o, "user", QueryOf(o), outcome, d)
            /\ turn' = [turn EXCEPT ![o].user = IF outcome = "ok" THEN nextId ELSE 0]
            /\ pc' = [pc EXCEPT ![o] = "invoked"]
       \/ \E outcome \in WriteOutcomes, d \in Delays :
            InstanceExceptBlock(o, outcome, d)
    /\ UNCHANGED ret

\* answer_question of instance o from the return of agent.ainvoke on
InstanceFinish(o) ==
    /\ pc[o] = "invoked"
    /\ \E model \in ModelOutcomes, first \in WriteOutcomes, outcome \in WriteOutcomes,
          d \in Delays :
         IF model.kind = "raised" \/ first = "raise"
           THEN InstanceExceptBlock(o, outcome, d)
           ELSE /\ instance_add_message(o, "assistant", Recorded(model), first, d)
                /\ turn' = [turn EXCEPT
                               ![o].assistant = IF first = "ok" THEN nextId ELSE 0,
                               ![o].reply = Recorded(model)]
                /\ pc' = [pc EXCEPT ![o] = "done"]
    /\ UNCHANGED ret

InitConcurrent ==
    /\ store = <<>>
    /\ now = 1
    /\ nextId = 1
    /\ pc = [o \in Instances |-> "new"]
    /\ turn = [o \in Instances |-> NoWrites]
    /\ fallback_memory = [o \in Instances |-> <<>>]
    /\ ret = NoCall

Start_op == \E o \in Instances : InstanceStart(o)

Finish_op == \E o \in Instances : InstanceFinish(o)

NextConcurrent == Start_op \/ Finish_op

SpecConcurrent == InitConcurrent /\ [][NextConcurrent]_vars

----------------------------------------------------------------------------
(* The message store under direct calls *)

InitStore == Init

\* at most MaxMsgs documents are ever inserted
Append_op ==
    /\ nextId <= MaxMsgs
    /\ \E c \in CIDs, r \in Roles, x \in Contents : add_message(c, r, x)

Fetch_op == \E c \in CIDs, l \in Limits, k \in Skips : fetch(c, l, k)

Tool_op == \E c \in CIDs, l \in Limits, e \in BOOLEAN : get_conversation_history_tool(c, l, e)

Delete_op == \E c \in CIDs : clear_conversation(c)

Recent_op == \E l \in Limits : get_recent_conversations(l)

Search_op == \E x \in Contents, l \in Limits : search_conversations(x, l)

NextStore ==
    Append_op \/ Fetch_op \/ Tool_op \/ Delete_op \/ Recent_op \/ Search_op \/ Return

SpecStore == InitStore /\ [][NextStore]_vars

----------------------------------------------------------------------------
(* The resolver over one conversation built by add_message *)

Write_op ==
    /\ Len(store) < MaxConv
    /\ \E r \in Roles, x \in Contents : add_message(Conv, r, x)

Resolve_op == \E l \in Limits, e \in BOOLEAN : get_conversation_history_tool(Conv, l, e)

NextResolve == Write_op \/ Resolve_op \/ Return

SpecResolve == InitStore /\ [][NextResolve]_vars

----------------------------------------------------------------------------
(* Reads of a collection that holds documents of the legacy schema *)

\* what a stored document may carry: a role or none, a legacy type or none,
\* a content or none
LegacyShapes ==
    [role : Roles \cup {Absent},
     type : {"human", "ai", "system", "foo", Absent},
     content : Contents \cup {Absent}]

LegacyDoc(i, shape) ==
    [id |-> i, conversation_id |-> Conv, role |-> shape.role, type |-> shape.type,
     content |-> shape.content, timestamp |-> i]

\* a collection of n documents, document i of the shape shapes[i]
LegacyStore(n, shapes) == [i \in 1..n |-> LegacyDoc(i, shapes[i])]

InitLegacy ==
    /\ \E n \in 1..MaxLegacy : \E shapes \in [1..n -> LegacyShapes] :
          store = LegacyStore(n, shapes)
    /\ now = Len(store)
    /\ nextId = Len(store) + 1
    /\ pc = "new"
    /\ turn = NoTurn
    /\ fallback_memory = <<>>
    /\ ret = NoCall

Read_op == \E l \in Limits, k \in Skips : fetch(Conv, l, k)

NextLegacy == Read_op \/ Resolve_op \/ Return

SpecLegacy == InitLegacy /\ [][NextLegacy]_vars

----------------------------------------------------------------------------
(* MongoDBMemoryAdapter reads and the agent's get-history route *)

\* sorted(self.fallback_memory, key=timestamp): a stable sort, so messages
\* with equal timestamps keep the order in which they were appended
RECURSIVE StableSort(_)
StableSort(s) ==
    IF s = <<>> THEN <<>>
    ELSE LET m == CHOOSE i \in 1..Len(s) :
                     /\ \A j \in 1..Len(s) : s[i].timestamp <= s[j].timestamp
                     /\ \A j \in 1..(i - 1) : s[j].timestamp > s[i].timestamp
         IN  <<s[m]>> \o StableSort(SubSeq(s, 1, m - 1) \o SubSeq(s, m + 1, Len(s)))

\* messages[-self.max_history_length:]
NewestOf(s) == SubSeq(s, Len(s) - Min(MAX_HISTORY_LENGTH, Len(s)) + 1, Len(s))

\* MongoDBMemoryAdapter.get_conversation_history on an adapter whose fallback
\* list is fallback: every list the call may return
MongoDBMemoryAdapter_get_conversation_history(st, fallback, conversation_id, storage) ==
    {IF messages = <<>> /\ fallback # <<>>
       THEN NewestOf(StableSort(fallback))
       ELSE messages :
     messages \in ConversationRepository_get_conversation_history(
                      st, conversation_id, MAX_HISTORY_LENGTH, 0, storage)}

HistoryRouteError == "Error retrieving conversation history: e"

\* one MessageInfo of the route
MessageInfo(msg) ==
    [role |-> msg.role, content |-> msg.content, timestamp |-> isoformat(msg.timestamp)]

\* the route's answer for the history the agent returned: msg["timestamp"]
\* raises KeyError for a message without the field, and every exception of the
\* body becomes an HTTPException with status 500
ConversationHistoryResponse(conversation_id, history) ==
    IF \E i \in 1..Len(history) : history[i].timestamp = 0
      THEN [status_code |-> 500, detail |-> HistoryRouteError]
      ELSE [status_code |-> 200, conversation_id |-> conversation_id,
            messages |-> [i \in 1..Len(history) |-> MessageInfo(history[i])],
            message_count |-> Len(history)]

\* GET /conversations/{conversation_id}: get_agent builds an agent for the
\* request, so the adapter's fallback list is empty
get_conversation_history_route(conversation_id) ==
    /\ ret = NoCall
    /\ \E storage \in StorageOutcomes :
         \E history \in MongoDBMemoryAdapter_get_conversation_history(
                           store, <<>>, conversation_id, storage) :
            ret' = [op |-> "history_route", conversation_id |-> conversation_id,
                    storage |-> storage, history |-> history,
                    response |-> ConversationHistoryResponse(conversation_id, history)]
    /\ UNCHANGED <<store, now, nextId, pc, turn, fallback_memory>>

----------------------------------------------------------------------------
(* One memory of the agent: ShortTermMemory over MongoDBMemoryAdapter *)

\* ShortTermMemory.get_conversation_history without an adapter:
\* self.conversation_history[-self.max_history_length:]
ShortTermMemory_get_conversation_history(conversation_history) ==
    NewestOf(conversation_history)

\* memory.add_message(role, content) through the adapter. pc tells whether a
\* message was added since the last clear_conversation ("holding") or not
\* ("new", "cleared").
agent_add_message(role, content) ==
    /\ ret = NoCall
    /\ \E outcome \in WriteOutcomes, d \in Delays :
         /\ memory_add_message(role, content, outcome, d)
         /\ ret' = [op |-> "memory_add", role |-> role, content |-> content,
                    storage |-> outcome, raised |-> (outcome = "raise")]
    /\ pc' = "holding"
    /\ UNCHANGED turn

\* BedrockRAGAgent.get_conversation_history: memory.get_conversation_history()
agent_get_conversation_history ==
    /\ ret = NoCall
    /\ \E storage \in StorageOutcomes :
         \E history \in MongoDBMemoryAdapter_get_conversation_history(
                           store, fallback_memory, Conv, storage) :
            ret' = [op |-> "memory_history", storage |-> storage, result |-> history]
    /\ UNCHANGED <<store, now, nextId, pc, turn, fallback_memory>>

\* BedrockRAGAgent.clear_conversation: the adapter calls the repository's
\* clear_conversation, does not look at what it returns, and empties the
\* fallback list
agent_clear_conversation ==
    /\ ret = NoCall
    /\ \E outcome \in StorageOutcomes :
         /\ store' = IF outcome = "ok" THEN DeleteMany(store, Conv) ELSE store
         /\ ret' = [op |-> "memory_clear", storage |-> outcome]
    /\ fallback_memory' = <<>>
    /\ pc' = "cleared"
    /\ UNCHANGED <<now, nextId, turn>>

Add_op ==
    /\ nextId <= MaxMsgs
    /\ Recordings < MaxMsgs
    /\ \E r \in Roles, x \in Contents : agent_add_message(r, x)

History_op == agent_get_conversation_history

Clear_op == agent_clear_conversation

NextMemory == Add_op \/ History_op \/ Clear_op \/ Return

SpecMemory == Init /\ [][NextMemory]_vars

----------------------------------------------------------------------------
(* Reads of a collection that holds partial documents *)

\* what a stored document may lack: the role, the content, the timestamp
PartialShapes ==
    [role : Roles \cup {Absent}, content : Contents \cup {Absent}, stamped : BOOLEAN]

PartialDoc(i, shape) ==
    [id |-> i, conversation_id |-> Conv, role |-> shape.role, type |-> Absent,
     content |-> shape.content, timestamp |-> IF shape.stamped THEN i ELSE 0]

\* a collection of n documents, document i of the shape shapes[i]
PartialStore(n, shapes) == [i \in 1..n |-> PartialDoc(i, shapes[i])]

InitPartial ==
    /\ \E n \in 1..MaxLegacy : \E shapes \in [1..n -> PartialShapes] :
          store = PartialStore(n, shapes)
    /\ now = Len(store)
    /\ nextId = Len(store) + 1
    /\ pc = "new"
    /\ turn = NoTurn
    /\ fallback_memory = <<>>
    /\ ret = NoCall

HistoryRoute_op == get_conversation_history_route(Conv)

NextPartial == Resolve_op \/ HistoryRoute_op \/ Return

SpecPartial == InitPartial /\ [][NextPartial]_vars

----------------------------------------------------------------------------
(* The document tools: retrieve_documents and filter_by_metadata *)

Fields == {"lang", "kind"}        \* metadata field names
Values == {"en", "fr"}            \* metadata values

\* a metadata mapping: each field carries a value or is missing
Metadatas == [lang : Values \cup {Absent}, kind : Values \cup {Absent}]

\* metadata.get(field)
Lookup(metadata, field) == IF field = "lang" THEN metadata.lang ELSE metadata.kind

\* the documents the provider may return
Documents == [page_content : {"d"}, metadata : Metadatas]

\* what self.retriever.get_relevant_documents does: it returns documents, or raises
ProviderOutcomes ==
    {[failed |-> TRUE, documents |-> <<>>]}
    \cup {[failed |-> FALSE, documents |-> docs] :
             docs \in UNION {[1..n -> Documents] : n \in 0..MaxSources}}

\* BedrockRetrieverClient.format_documents
format_documents(documents) ==
    [i \in 1..Len(documents) |->
        [index |-> i, content |-> documents[i].page_content,
         has_metadata |-> TRUE, metadata |-> documents[i].metadata]]

\* KnowledgeBaseRetriever.retrieve: the provider's exception is caught and
\* reported under the keys "status" and "error"
KnowledgeBaseRetriever_retrieve(query, provider) ==
    IF provider.failed
      THEN [sources |-> <<>>, query |-> query, document_count |-> 0,
            status |-> "error", error |-> "Error in retrieval: e"]
      ELSE [sources |-> format_documents(provider.documents), query |-> query,
            document_count |-> Len(provider.documents),
            status |-> "success", error |-> Absent]

\* BedrockRagHandler.perform_rag_query: the response is built from the keys
\* "sources" and "document_count" of the retriever's result; retrieve does not
\* raise, so the except branch is not taken
perform_rag_query(query, result) ==
    [response |-> "", sources |-> result.sources, query |-> query,
     document_count |-> result.document_count, error |-> Absent]

\* the retrieve_documents tool on the handler's result
DocumentRetrievalResponse(query, result) ==
    IF Has(result.error) /\ result.error # ""
      THEN [query |-> query, sources |-> <<>>, document_count |-> 0,
            error |-> result.error]
      ELSE [query |-> query, sources |-> result.sources,
            document_count |-> result.document_count, error |-> Absent]

\* the retrieve_documents tool
retrieve_documents(query) ==
    /\ ret = NoCall
    /\ \E provider \in ProviderOutcomes :
         ret' = [op |-> "retrieve_documents", query |-> query,
                 provider_failed |-> provider.failed,
                 response |-> DocumentRetrievalResponse(query,
                                  perform_rag_query(query,
                                      KnowledgeBaseRetriever_retrieve(query, provider)))]
    /\ UNCHANGED <<store, now, nextId, pc, turn, fallback_memory>>

\* the sources a caller may pass to the filter: each with a metadata mapping
\* or without the key "metadata"; index is the position in the list
SourceKinds ==
    [has_metadata : {TRUE}, metadata : Metadatas]
    \cup {[has_metadata |-> FALSE, metadata |-> [lang |-> Absent, kind |-> Absent]]}

SourceList(n, kinds) ==
    [i \in 1..n |-> [index |-> i, content |-> "d",
                     has_metadata |-> kinds[i].has_metadata,
                     metadata |-> kinds[i].metadata]]

\* the filter as it would be if only the presence of the field were tested
KnowledgeBaseRetriever_filter_by_metadata_FieldOnly(sources, field, value) ==
    SelectSeq(sources, LAMBDA source :
        source.has_metadata /\ Has(Lookup(source.metadata, field)))

\* KnowledgeBaseRetriever.filter_by_metadata
KnowledgeBaseRetriever_filter_by_metadata(sources, field, value) ==
    SelectSeq(sources, LAMBDA source :
        /\ source.has_metadata
        /\ Has(Lookup(source.metadata, field))
        /\ Lookup(source.metadata, field) = value)

\* the filter_by_metadata tool
filter_by_metadata(sources, field, value) ==
    /\ ret = NoCall
    /\ LET filtered_sources == KnowledgeBaseRetriever_filter_by_metadata(sources, field, value)
       IN  ret' = [op |-> "filter_by_metadata", sources |-> sources, field |-> field,
                   value |-> value,
                   response |-> [filtered_sources |-> filtered_sources, field |-> field,
                                 value |-> value, original_count |-> Len(sources),
                                 filtered_count |-> Len(filtered_sources),
                                 error |-> Absent]]
    /\ UNCHANGED <<store, now, nextId, pc, turn, fallback_memory>>

\* a tool is called when the previous call has returned
Retrieve_op ==
    /\ ret = NoCall
    /\ \E q \in Queries : retrieve_documents(q)

Filter_op ==
    /\ ret = NoCall
    /\ \E n \in 0..MaxSources : \E kinds \in [1..n -> SourceKinds] :
         \E field \in Fields, value \in Values :
           filter_by_metadata(SourceList(n, kinds), field, value)

NextRag == Retrieve_op \/ Filter_op \/ Return

SpecRag == Init /\ [][NextRag]_vars

----------------------------------------------------------------------------
(* Properties of the History Window Resolver *)

\* the conversation in timestamp order, oldest first: every such order when
\* timestamps tie
Conversations(cid) ==
    {[i \in 1..Len(p) |-> store[p[i]]] : p \in SortOrders(store, cid, FALSE)}

\* the newest k messages of s
LastN(s, k) == Drop(s, Len(s) - Min(k, Len(s)))

\* the history tool has just answered from a query that ran
Resolved == ret.op = "tool" /\ ret.storage = "ok"

\* user/assistant strictly alternating, at least 2 messages, ending with assistant
Alternates(conv) ==
    /\ Len(conv) >= 2
    /\ conv[Len(conv)].role = "assistant"
    /\ \A i \in 1..(Len(conv) - 1) : {conv[i].role, conv[i + 1].role} = {"user", "assistant"}

NondecreasingTimestamps(s) ==
    \A i, j \in 1..Len(s) : i < j => s[i].timestamp <= s[j].timestamp

\* C1: for a conversation of at least 2 messages that strictly alternates
\* user/assistant and ends with an assistant message, resolve with
\* exclude_current = true returns the conversation without its newest pair,
\* capped to the newest effective_limit of the remaining messages, oldest first.
C1_AlternatingDropsNewestPair ==
    (/\ Resolved
     /\ ret.exclude_current
     /\ \A conv \in Conversations(ret.conversation_id) : Alternates(conv))
    => \A conv \in Conversations(ret.conversation_id) :
         ret.resolved = LastN(Take(conv, Len(conv) - 2), EffectiveLimit(ret.limit))

\* [u1, a1, u2, a2] resolved with exclusion yields [u1, a1]
C1_Witness ==
    /\ Resolved
    /\ ret.exclude_current
    /\ \A conv \in Conversations(ret.conversation_id) : Alternates(conv) /\ Len(conv) = 4
    /\ Len(ret.resolved) = 2
    /\ ret.resolved[1].role = "user"

\* C3: for every conversation content and both values of exclude_current,
\* resolve returns at most effective_limit messages, and exactly
\* effective_limit when the conversation holds at least effective_limit + 2.
C3_AtMostLimit ==
    Resolved =>
      LET n == Cardinality(Matching(store, ret.conversation_id))
          l == EffectiveLimit(ret.limit)
      IN  /\ Len(ret.resolved) <= l
          /\ (n >= l + 2 => Len(ret.resolved) = l)

\* C4: with exclude_current = false, resolve returns exactly the newest
\* min(effective_limit, n) messages of the conversation, dropping none,
\* whatever their roles.
C4_NoExclusionNewest ==
    (Resolved /\ ~ret.exclude_current)
    => \E conv \in Conversations(ret.conversation_id) :
         ret.resolved = LastN(conv, EffectiveLimit(ret.limit))

\* exclusion disabled, the newest message is a user message, and it is returned
C4_Witness ==
    /\ Resolved
    /\ ~ret.exclude_current
    /\ Len(ret.resolved) = 2
    /\ ret.resolved[2].role = "user"
    /\ Cardinality(Matching(store, ret.conversation_id)) = 2

\* C5: on every path the sequence resolve returns is ordered oldest first:
\* timestamps are non-decreasing and the messages are a contiguous run of the
\* conversation's timestamp order.
C5_OldestFirstRun ==
    Resolved =>
      /\ NondecreasingTimestamps(ret.resolved)
      /\ \E conv \in Conversations(ret.conversation_id) :
           \E k \in 0..(Len(conv) - Len(ret.resolved)) :
              ret.resolved = SubSeq(conv, k + 1, k + Len(ret.resolved))

\* the exclusion was applied and two messages with different timestamps remain
C5_Witness ==
    /\ Resolved
    /\ ret.exclude_current
    /\ Cardinality(Matching(store, ret.conversation_id)) = 4
    /\ Len(ret.resolved) = 2
    /\ ret.resolved[1].timestamp < ret.resolved[2].timestamp

----------------------------------------------------------------------------
(* Properties of the Message Store *)

\* C9: for any conversation and any limit and skip, fetch returns messages in
\* non-decreasing timestamp order, all carrying the requested conversation_id.
C9_FetchOrdered ==
    ret.op = "fetch" =>
      /\ NondecreasingTimestamps(ret.result)
      /\ \A i \in 1..Len(ret.result) :
            ret.result[i].conversation_id = ret.conversation_id

\* two messages with different timestamps fetched while the collection holds
\* a message of another conversation written between them
C9_Witness ==
    /\ ret.op = "fetch"
    /\ Len(ret.result) = 2
    /\ ret.result[1].timestamp < ret.result[2].timestamp
    /\ Len(store) = 3
    /\ store[2].conversation_id # ret.conversation_id

\* C10: every successful append adds exactly one record to the conversation;
\* after a successful append on a previously empty conversation, fetch returns
\* exactly one record, with the role and content of the call and a timestamp
\* not earlier than the time of the call.
C10_AppendThenFetch ==
    (ret.op = "add_message" /\ ret.result) =>
      /\ Cardinality(Matching(store, ret.conversation_id)) = ret.before + 1
      /\ ret.before = 0 =>
           \A fetched \in ConversationRepository_get_conversation_history(
                              store, ret.conversation_id, 0, 0, "ok") :
              /\ Len(fetched) = 1
              /\ fetched[1].role = ret.role
              /\ fetched[1].content = ret.content
              /\ fetched[1].timestamp >= ret.called_at

\* a first message of a conversation, stamped after the time of the call
C10_Witness ==
    /\ ret.op = "add_message"
    /\ ret.result
    /\ ret.before = 0
    /\ ret.role = "user"
    /\ now > ret.called_at

\* C16: append never raises to its caller: for every kind of storage failure
\* (store unreachable at construction, store failing during the insert, or
\* any other error of the insert) it returns false, and the stored messages
\* are unchanged by the failed call.
C16_AppendNeverRaises ==
    (ret.op = "add_message" /\ ret.storage # "ok") =>
      /\ ~ret.raised
      /\ ~ret.result
      /\ Cardinality(Matching(store, ret.conversation_id)) = ret.before

\* C17: any storage failure during resolve (the connection cannot be
\* established, or the query fails) makes resolve return the empty sequence,
\* and the history tool then answers with zero messages.
C17_StorageFailureEmpty ==
    (ret.op = "tool" /\ ret.storage # "ok") =>
      /\ ret.resolved = <<>>
      /\ ret.response.messages = <<>>
      /\ ret.response.message_count = 0

\* the storage failed while the conversation asked for holds two messages
C17_Witness ==
    /\ ret.op = "tool"
    /\ ret.storage = "error"
    /\ Cardinality(Matching(store, ret.conversation_id)) >= 2
    /\ ret.response.message_count = 0

\* no stored message carries the conversation_id of the call
UnknownConversation ==
    \A i \in 1..Len(store) : store[i].conversation_id # ret.conversation_id

\* C18: for a conversation_id with no stored messages, fetch and resolve (with
\* either value of exclude_current and any limit) both return the empty
\* sequence and signal no error.
C18_UnknownConversationEmpty ==
    /\ (ret.op = "fetch" /\ UnknownConversation) =>
          ret.result = <<>>
    /\ (ret.op = "tool" /\ UnknownConversation) =>
          /\ ret.resolved = <<>>
          /\ ret.response.messages = <<>>
          /\ ret.response.message_count = 0
          /\ ~Has(ret.response.error)

\* the tool answered, from a query that ran, for a conversation without
\* messages while the collection holds two messages of another conversation
C18_Witness ==
    /\ Resolved
    /\ ret.exclude_current
    /\ UnknownConversation
    /\ Len(store) = 2
    /\ ret.response.message_count = 0

\* a delete_all that reached the storage has returned
Cleared == ret.op = "clear_conversation" /\ ret.storage = "ok"

\* C19: delete_all is idempotent: on a conversation with no messages it
\* returns success and changes nothing, and calling delete_all twice in a row
\* leaves the store in the same state as calling it once, with fetch returning
\* the empty sequence afterwards.
C19_DeleteIdempotent ==
    Cleared =>
      /\ ret.result
      /\ Matching(ret.before, ret.conversation_id) = {} => store = ret.before
      /\ DeleteMany(store, ret.conversation_id) = store
      /\ Matching(store, ret.conversation_id) = {}
      /\ ConversationRepository_get_conversation_history(
             store, ret.conversation_id, 0, 0, "ok") = {<<>>}

\* a conversation of two messages deleted while a message of another
\* conversation stays
C19_Witness ==
    /\ Cleared
    /\ Cardinality(Matching(ret.before, ret.conversation_id)) = 2
    /\ Len(store) = 1

----------------------------------------------------------------------------
(* Properties of the legacy-field migration *)

\* the role the legacy rules give a stored document
LegacyRuleRole(doc) ==
    IF Has(doc.role) THEN doc.role
    ELSE IF doc.type = "human" THEN "user"
    ELSE IF doc.type = "ai" THEN "assistant"
    ELSE IF doc.type = "system" THEN "system"
    ELSE IF Has(doc.type) THEN doc.type
    ELSE "user"

\* the collection with every role resolved by the legacy rules
MigratedStore == [i \in 1..Len(store) |-> [store[i] EXCEPT !.role = LegacyRuleRole(store[i])]]

Ids(s) == [i \in 1..Len(s) |-> s[i].id]

\* C6: every message the get_conversation_history tool delivers has its role
\* resolved by the legacy rules (type human/ai/system without role gives
\* user/assistant/system, neither role nor type gives user), and the exclusion
\* scan sees the same resolved roles.
C6_ToolRolesMigrated ==
    Resolved =>
      /\ \A i \in 1..Len(ret.resolved) :
            ret.response.messages[i].role = LegacyRuleRole(ret.resolved[i])
      /\ \E migrated \in MongoDBClient_get_conversation_history(
                             MigratedStore, ret.conversation_id, ret.limit,
                             ret.exclude_current, "ok") :
            Ids(ret.resolved) = Ids(migrated)

\* the documents a fetch that ran has read, in the order returned
FetchedDocs == FetchCursor(store, ret.conversation_id, ret.limit, ret.skip)

Fetched == ret.op = "fetch" /\ ret.storage = "ok"

\* C7: fetch maps every returned record that has a type and no role: human to
\* user, ai to assistant, system to system, any other type to itself; a record
\* that already has a role keeps it regardless of its type.
C7_FetchMapsType ==
    Fetched =>
      \E docs \in FetchedDocs :
        /\ Len(docs) = Len(ret.result)
        /\ \A i \in 1..Len(docs) :
             /\ (Has(docs[i].type) /\ ~Has(docs[i].role)) =>
                   ret.result[i].role =
                      CASE docs[i].type = "human" -> "user"
                        [] docs[i].type = "ai" -> "assistant"
                        [] docs[i].type = "system" -> "system"
                        [] OTHER -> docs[i].type
             /\ Has(docs[i].role) => ret.result[i].role = docs[i].role

\* a fetched 'ai' document without role, and a document with both a role and
\* a type that maps to another role
C7_Witness ==
    /\ Fetched
    /\ Len(store) = 2
    /\ Len(ret.result) = 2
    /\ store[1].type = "ai" /\ ~Has(store[1].role)
    /\ ret.result[1].role = "assistant"
    /\ store[2].type = "human" /\ store[2].role = "assistant"
    /\ ret.result[2].role = "assistant"

\* C8: every record fetch returns has both a role and a content: a record
\* missing content is returned with content "", a record missing both role
\* and type with role user.
C8_FetchRepairsFields ==
    Fetched =>
      \E docs \in FetchedDocs :
        /\ Len(docs) = Len(ret.result)
        /\ \A i \in 1..Len(docs) :
             /\ Has(ret.result[i].role)
             /\ Has(ret.result[i].content)
             /\ ~Has(docs[i].content) => ret.result[i].content = ""
             /\ (~Has(docs[i].role) /\ ~Has(docs[i].type)) => ret.result[i].role = "user"

\* a fetched document that carries neither role nor type nor content
C8_Witness ==
    /\ Fetched
    /\ Len(ret.result) = 1
    /\ ret.skip = 0
    /\ ~Has(store[1].role) /\ ~Has(store[1].type) /\ ~Has(store[1].content)
    /\ ret.result[1].role = "user"
    /\ ret.result[1].content = ""

----------------------------------------------------------------------------
(* Properties of the orchestrator's turn *)

\* C2: whenever the history tool is invoked with exclude_current = true while
\* an answer_question turn is in progress (the user query appended, the reply
\* not), the returned window never contains that in-progress user query; this
\* holds for every turn, including the first, when the query is the only
\* stored message.
C2_InProgressQueryExcluded ==
    (/\ Resolved
     /\ ret.exclude_current
     /\ ret.conversation_id = Conv
     /\ pc = "invoked"
     /\ turn.stored # 0)
    => \A i \in 1..Len(ret.resolved) : ret.resolved[i].id # turn.stored

\* the messages recorded since the memory held store_len documents and
\* fallback_len fallback entries: those of the collection, then those of the
\* fallback list
RecordedSince(store_len, fallback_len) ==
    SubSeq(store, store_len + 1, Len(store))
    \o SubSeq(fallback_memory, fallback_len + 1, Len(fallback_memory))

\* answer_question has returned after it had invoked the model
Answered == ret.op = "answer_question" /\ ~ret.raised /\ ret.model # Absent

\* C11: every answer_question call that returns (with an answer, with the
\* no-model-message fallback, or after an exception in the model call) has
\* recorded exactly one user message carrying the query and exactly one
\* assistant message for that turn, in that order; while the model is invoked
\* the user message is already recorded and the assistant message is not.
C11_OneUserOneAssistant ==
    /\ Answered =>
         LET m == RecordedSince(ret.store_len, ret.fallback_len)
             in_store == Len(store) - ret.store_len
         IN  /\ Len(m) = 2
             /\ \E i, j \in 1..2 :
                  /\ i # j
                  /\ m[i].role = "user" /\ m[i].content = ret.query
                  /\ m[j].role = "assistant" /\ m[j].content = ret.answer
                  /\ m[i].timestamp <= m[j].timestamp
                  /\ in_store # 1 => i < j
    /\ pc = "invoked" =>
         LET m == RecordedSince(turn.store_len, turn.fallback_len)
         IN  /\ Len(m) = 1
             /\ m[1].role = "user" /\ m[1].content = turn.query

\* a second turn returned the model's answer; its query went to the fallback
\* list and its answer to the collection
C11_Witness ==
    /\ Answered
    /\ ret.model = "answer"
    /\ ret.store_len + ret.fallback_len = 2
    /\ Len(fallback_memory) = ret.fallback_len + 1
    /\ Len(store) = ret.store_len + 1
    /\ store[Len(store)].role = "assistant"

\* C12: no failure makes answer_question raise to its caller: after a failure
\* of the model call, of the connection to the tool servers during the lazy
\* setup, or of a message write, answer_question still returns a response.
C12_NeverRaises ==
    ret.op = "answer_question" => ~ret.raised

\* answer_question has returned
Returned == ret.op = "answer_question" /\ ~ret.raised

\* the model-authored messages of the result the model call returned
ModelAuthored == SelectSeq(ret.result, LAMBDA msg : msg.type = "ai")

\* the contents of the assistant messages recorded during the call that returned
RecordedAssistant ==
    LET m == RecordedSince(ret.store_len, ret.fallback_len)
    IN  {m[i].content : i \in {k \in 1..Len(m) : m[k].role = "assistant"}}

\* C13: the result of answer_question carries error: true exactly when no
\* model-authored answer was produced (the model call raised, or its result
\* held no model-authored message), and then the error text of the returned
\* exchange is the text recorded as the turn's assistant message.
C13_ErrorIffNoAnswer ==
    Returned =>
      /\ ret.error <=> (ret.model = "raised" \/ ModelAuthored = <<>>)
      /\ ret.error => RecordedAssistant = {ret.answer}

\* C14: when the model result contains at least one model-authored message,
\* the content recorded as the assistant message of the turn is the content of
\* the last model-authored message of the result; when it contains none, the
\* fixed error message is recorded instead.
C14_RecordsLastModelMessage ==
    (Returned /\ ret.model \in {"answer", "no_ai_message"}) =>
      RecordedAssistant =
        {IF ModelAuthored = <<>> THEN NoAnswerText
                                 ELSE ModelAuthored[Len(ModelAuthored)].content}

----------------------------------------------------------------------------
(* Properties of the document tools *)

\* C15: whenever the knowledge/search provider fails during
\* retrieve_documents, the tool returns with its error field populated, empty
\* sources and document_count 0; a provider failure is never reported as a
\* successful response with no error.
C15_ProviderFailureReported ==
    (ret.op = "retrieve_documents" /\ ret.provider_failed) =>
      /\ Has(ret.response.error)
      /\ ret.response.sources = <<>>
      /\ ret.response.document_count = 0

\* positions of the sources the filter has to keep
Kept ==
    {i \in 1..Len(ret.sources) :
        /\ ret.sources[i].has_metadata
        /\ Lookup(ret.sources[i].metadata, ret.field) = ret.value}

----------------------------------------------------------------------------
(* Properties of the Message Store under every operation *)

\* C21: in every step of the Message Store a stored message keeps its
\* conversation_id, role, content and timestamp, and a stored message
\* disappears only in a delete_all of its own conversation; so a delete_all
\* of one conversation leaves the messages of every other conversation as
\* they were.
C21_StoredMessagesImmutable ==
    [][/\ \A i \in 1..Len(store) :
            \/ \E j \in 1..Len(store') : store'[j] = store[i]
            \/ /\ ret'.op = "clear_conversation"
               /\ ret'.conversation_id = store[i].conversation_id
       /\ \A i \in 1..Len(store), j \in 1..Len(store') :
            store'[j].id = store[i].id => store'[j] = store[i]]_vars

\* a delete_all removed one conversation while two messages of another stayed
C21_Witness ==
    /\ ret.op = "clear_conversation" /\ ret.storage = "ok"
    /\ Len(ret.before) = 3 /\ Len(store) = 2
    /\ \A i \in 1..2 : store[i].conversation_id # ret.conversation_id

RecentReturned == ret.op = "recent" /\ ret.storage = "ok"

\* C24: recent_conversations(limit) returns at most limit entries, one per
\* conversation_id, each holding a message of that conversation with the
\* maximum timestamp together with the number of its messages, ordered by that
\* maximum timestamp descending.
C24_RecentConversations ==
    RecentReturned =>
        LET r == ret.result
        IN  /\ Len(r) <= ret.limit
            /\ \A i, j \in 1..Len(r) :
                 i # j => r[i].conversation_id # r[j].conversation_id
            /\ \A i \in 1..Len(r) :
                 /\ \E k \in 1..Len(store) :
                      /\ store[k] = r[i].latest_message
                      /\ store[k].conversation_id = r[i].conversation_id
                 /\ \A m \in 1..Len(store) :
                      store[m].conversation_id = r[i].conversation_id
                        => store[m].timestamp <= r[i].latest_message.timestamp
                 /\ r[i].message_count =
                      Cardinality({m \in 1..Len(store) :
                                     store[m].conversation_id = r[i].conversation_id})
            /\ \A i, j \in 1..Len(r) :
                 i < j => r[i].latest_message.timestamp
                            >= r[j].latest_message.timestamp

\* two conversations are listed, the first with two messages written at
\* different times
C24_Witness ==
    /\ RecentReturned
    /\ Len(ret.result) = 2
    /\ ret.result[1].message_count = 2
    /\ \E m \in 1..Len(store) :
         /\ store[m].conversation_id = ret.result[1].conversation_id
         /\ store[m].timestamp < ret.result[1].latest_message.timestamp

----------------------------------------------------------------------------
(* Properties of the tools as read operations *)

\* C22: a get_conversation_history tool call leaves the Message Store as it
\* was, and the response it returns is the response every further call with
\* the same arguments returns while nothing is written: the call has one
\* possible response on the unchanged store.
C22_ToolReadOnlyRepeatable ==
    [][(ret'.op = "tool" /\ ret'.storage = "ok") =>
          /\ store' = store
          /\ \A again \in MongoDBClient_get_conversation_history(
                             store', ret'.conversation_id, ret'.limit,
                             ret'.exclude_current, "ok") :
               ConversationHandler_get_conversation_history(
                   ret'.conversation_id, again) = ret'.response]_vars

\* C23: a conversation holding a record without role, content or timestamp
\* is delivered by get-history without an error outcome: the history tool
\* answers with every resolved message and no error, and the agent's
\* get-history route answers with status 200.
C23_PartialRecordsDelivered ==
    /\ Resolved =>
         /\ ~Has(ret.response.error)
         /\ ret.response.message_count = Len(ret.resolved)
    /\ (ret.op = "history_route" /\ ret.storage = "ok") =>
         ret.response.status_code = 200

----------------------------------------------------------------------------
(* Properties of the request surface *)

\* C25: when answer_question, having called the model, returns an exchange
\* marked "error": True, the response of the submit-query route is not a
\* response with status success.
C25_ErrorSurfaced ==
    (Answered /\ ret.error) =>
        ~(ret.response.status_code = 200 /\ ret.response.status = "success")

----------------------------------------------------------------------------
(* Properties of concurrent turns *)

\* both answer_question calls have returned and each stored its two messages
BothStored ==
    \A o \in Instances :
        pc[o] = "done" /\ turn[o].user # 0 /\ turn[o].assistant # 0

\* the place of the document with the given id in an order of the conversation
PositionOf(conv, id) == CHOOSE k \in 1..Len(conv) : conv[k].id = id

\* C26: when two answer_question calls on one conversation, each from its own
\* instance, have both stored their messages, the conversation holds the four
\* messages with the roles and contents their writers supplied, and in the
\* conversation's timestamp order each turn's user message comes before the
\* same turn's assistant message.
C26_ConcurrentTurnsOrdered ==
    BothStored =>
        /\ Len(store) = 4
        /\ \A o \in Instances :
             /\ \E i \in 1..4 :
                  /\ store[i].id = turn[o].user
                  /\ store[i].role = "user" /\ store[i].content = QueryOf(o)
             /\ \E i \in 1..4 :
                  /\ store[i].id = turn[o].assistant
                  /\ store[i].role = "assistant" /\ store[i].content = turn[o].reply
        /\ \A conv \in Conversations(Conv) : \A o \in Instances :
             PositionOf(conv, turn[o].user) < PositionOf(conv, turn[o].assistant)

----------------------------------------------------------------------------
(* Properties of the exclusion during a turn *)

\* every write of the turns so far reached the collection, each at a later
\* time than the one before, and the query of the turn in progress is the
\* newest message: questions and replies alternate and the last message is a
\* question
TurnInProgress ==
    /\ pc = "invoked"
    /\ fallback_memory = <<>>
    /\ Len(store) >= 3
    /\ \A i \in 1..(Len(store) - 1) : store[i].timestamp < store[i + 1].timestamp
    /\ \A i \in 1..Len(store) :
         store[i].role = IF i % 2 = 1 THEN "user" ELSE "assistant"
    /\ store[Len(store)].role = "user"

\* C27: when resolve(exclude_current = true) is invoked while a turn is in
\* progress, after turns whose writes all succeeded, the messages it drops
\* belong to the turn in progress: the previous turn's assistant reply is in
\* the window.
C27_PreviousReplyKept ==
    (Resolved /\ ret.exclude_current /\ TurnInProgress) =>
        \E i \in 1..Len(ret.resolved) :
            ret.resolved[i].id = store[Len(store) - 1].id

----------------------------------------------------------------------------
(* Properties of the agent's memory *)

\* role, content and timestamp of each message of a list
Bare(s) ==
    [i \in 1..Len(s) |->
        [role |-> s[i].role, content |-> s[i].content, timestamp |-> s[i].timestamp]]

HistoryReturned == ret.op = "memory_history" /\ ret.storage = "ok"

\* the messages were written at pairwise different times
DistinctTimes(s) == \A i, j \in 1..Len(s) : i < j => s[i].timestamp < s[j].timestamp

\* C28: for one sequence of add_message calls, get_conversation_history
\* returns the window the plain in-memory ShortTermMemory returns, the newest
\* max_history_length messages in the order added, when the durable store
\* holds all the messages and when the fallback list holds them all.
C28_SameWindowEveryVariant ==
    HistoryReturned =>
        /\ (fallback_memory = <<>> /\ DistinctTimes(store)) =>
              Bare(ret.result) = ShortTermMemory_get_conversation_history(Bare(store))
        /\ store = <<>> =>
              Bare(ret.result) =
                  ShortTermMemory_get_conversation_history(Bare(fallback_memory))

\* C29: while the messages added since the last clear are no more than
\* max_history_length, get_conversation_history returns each of them, those
\* in the fallback list as well as those in the durable store.
C29_FallbackNotHidden ==
    (HistoryReturned /\ Recordings <= MAX_HISTORY_LENGTH) =>
        /\ \A i \in 1..Len(store) : \E k \in 1..Len(ret.result) :
             Bare(ret.result)[k] = Bare(store)[i]
        /\ \A i \in 1..Len(fallback_memory) : \E k \in 1..Len(ret.result) :
             Bare(ret.result)[k] = Bare(fallback_memory)[i]

\* C30: a get_conversation_history that follows a clear_conversation with no
\* add_message in between returns the empty sequence, whether or not the
\* store was reachable during the clear.
C30_EmptyAfterClear ==
    (ret.op = "memory_history" /\ pc = "cleared") => ret.result = <<>>

====
